---- MODULE Spec2Model ----
(***************************************************************************)
(* waifu-chat-api: the turn pipeline of process_message, the dialogs table *)
(* behind it and the create-user endpoint, as a state machine.             *)
(*                                                                         *)
(* Text is modelled by TLA+ strings, so lengths and the program's limits   *)
(* (1500, 1250, 700, 3300) are the real ones.  The dialogs table is a bag  *)
(* of rows; its PRIMARY KEY (current_user, user_id) is enforced by the     *)
(* INSERT statements, as in SQLite, and not by the data structure.         *)
(***************************************************************************)
EXTENDS Integers, Sequences, FiniteSets, Bags, TLC

VARIABLES dialogs, turn, started, db_pool, closed, created, thread

vars == <<dialogs, turn, started, db_pool, closed, created, thread>>

\* The connection pool and the threads that take connections from it.
poolvars == <<db_pool, closed, created, thread>>

-----------------------------------------------------------------------------
(* Bounds of the model *)

NumProcs == 2
MaxRequests == 2
MaxTurnsAsm == 1
MaxTurnsLang == 1
MaxDialogRequests == 2
MaxStoreRequests == 2
MaxFailTurns == 2
MaxContextRequests == 3
MaxPoolRequests == 4

Procs == 1..NumProcs

-----------------------------------------------------------------------------
(* Program constants *)

DefaultMaxLenDialog == 1500
max_message_length == 1250
max_user_id_length == 256
max_name_length == 50
CleanParagraphMax == 1250
SituationKeep == 700
StoreKeep == 3300

default_genre == "Romance"

MSG_TRANSLATION_ERROR == "Translation error. Please try again later."
MSG_DB_ERROR == "Database error. Please try again later."
MSG_DB_SAVE_ERROR == "Database error. Could not save conversation."
MSG_TIMEOUT == "Model is taking too long to respond. Please try again later."
MSG_CONNECTION == "Cannot connect to AI model. Please try again later."
MSG_HTTP_ERROR == "AI model returned an error. Please try again later."
MSG_REQUEST_FAILED == "Model unavailable. Please try again later."
MSG_UNAVAILABLE == "The AI model is currently unavailable. Please try again later."
MSG_TEMP_ERROR == "Temporary error, please try again in 30 seconds."
TEMP_ERROR_MSG == "error"
default_msg == MSG_UNAVAILABLE

None == "<None>"

-----------------------------------------------------------------------------
(* Strings *)

RECURSIVE Rep(_, _)
Rep(c, n) ==
    IF n = 0 THEN ""
    ELSE LET h == Rep(c, n \div 2)
         IN  h \o h \o (IF n % 2 = 1 THEN c ELSE "")

\* s[:n] in place of s[-n:]: the first characters are the ones kept.
FirstChars(s, n) ==
    IF n >= Len(s) THEN s ELSE IF n <= 0 THEN "" ELSE SubSeq(s, 1, n)

\* Python's s[-n:] for any integer n: the last n characters when n > 0,
\* the whole string when n = 0 (s[-0:] is s[0:]), and s[k:] with k = -n,
\* the string without its first k characters, when n < 0.
LastChars(s, n) ==
    IF n > 0
    THEN IF Len(s) <= n THEN s ELSE SubSeq(s, Len(s) - n + 1, Len(s))
    ELSE IF n = 0
         THEN s
         ELSE IF -n >= Len(s) THEN "" ELSE SubSeq(s, 1 - n, Len(s))

\* str.startswith
startswith(s, prefix) ==
    /\ Len(s) >= Len(prefix)
    /\ SubSeq(s, 1, Len(prefix)) = prefix

IsSuffix(a, b) ==
    /\ Len(a) <= Len(b)
    /\ SubSeq(b, Len(b) - Len(a) + 1, Len(b)) = a

Contains(s, sub) ==
    \E i \in 1..(Len(s) - Len(sub) + 1) : SubSeq(s, i, i + Len(sub) - 1) = sub

\* string.printable restricted to ord(char) >= 32: the characters from
\* space to tilde.  The backquote, also printable, cannot be written in a
\* TLA+ string; no text of the model contains it.
PrintableChars ==
    {" ", "!", "\"", "#", "$", "%", "&", "'", "(", ")", "*", "+", ",", "-",
     ".", "/", "0", "1", "2", "3", "4", "5", "6", "7", "8", "9", ":", ";",
     "<", "=", ">", "?", "@", "A", "B", "C", "D", "E", "F", "G", "H", "I",
     "J", "K", "L", "M", "N", "O", "P", "Q", "R", "S", "T", "U", "V", "W",
     "X", "Y", "Z", "[", "\\", "]", "^", "_", "a", "b", "c", "d", "e",
     "f", "g", "h", "i", "j", "k", "l", "m", "n", "o", "p", "q", "r", "s",
     "t", "u", "v", "w", "x", "y", "z", "{", "|", "}", "~"}

RECURSIVE FilterPrintable(_)
FilterPrintable(s) ==
    IF Len(s) = 0 THEN ""
    ELSE IF Len(s) = 1 THEN (IF s \in PrintableChars THEN s ELSE "")
    ELSE LET m == Len(s) \div 2
         IN  FilterPrintable(SubSeq(s, 1, m))
               \o FilterPrintable(SubSeq(s, m + 1, Len(s)))

RECURSIVE lstrip(_)
lstrip(s) ==
    IF Len(s) > 0 /\ SubSeq(s, 1, 1) = " " THEN lstrip(Tail(s)) ELSE s

RECURSIVE rstrip(_)
rstrip(s) ==
    IF Len(s) > 0 /\ SubSeq(s, Len(s), Len(s)) = " "
    THEN rstrip(SubSeq(s, 1, Len(s) - 1))
    ELSE s

strip(s) == rstrip(lstrip(s))

\* Text exceeds maximum length of {max_length}
TextTooLong(max_length) ==
    "Text exceeds maximum length of "
        \o (IF max_length = 1250 THEN "1250"
            ELSE IF max_length = 256 THEN "256" ELSE "50")

\* sanitize_text: filter, trim, then reject (not truncate) what is longer
\* than max_length.  ok = FALSE stands for the ValidationError it raises,
\* error for its message.
sanitize_text(text, max_length) ==
    LET sanitized == strip(FilterPrintable(text))
    IN  IF Len(sanitized) > max_length
        THEN [ok |-> FALSE, text |-> "", error |-> TextTooLong(max_length)]
        ELSE [ok |-> TRUE, text |-> sanitized, error |-> None]

clean_paragraph(paragraph) == sanitize_text(paragraph, CleanParagraphMax)

-----------------------------------------------------------------------------
(* Validation: waifuapi_validation *)

ValidateMessageMax == 1250
FormFieldMax == 256
DialogNameMax == 50

UpperChars ==
    <<"A", "B", "C", "D", "E", "F", "G", "H", "I", "J", "K", "L", "M", "N",
      "O", "P", "Q", "R", "S", "T", "U", "V", "W", "X", "Y", "Z">>

LowerChars ==
    <<"a", "b", "c", "d", "e", "f", "g", "h", "i", "j", "k", "l", "m", "n",
      "o", "p", "q", "r", "s", "t", "u", "v", "w", "x", "y", "z">>

\* str.lower
RECURSIVE lower(_)
lower(s) ==
    IF Len(s) = 0 THEN ""
    ELSE IF Len(s) = 1
         THEN IF \E i \in 1..26 : UpperChars[i] = s
              THEN LowerChars[CHOOSE i \in 1..26 : UpperChars[i] = s]
              ELSE s
         ELSE LET m == Len(s) \div 2
              IN  lower(SubSeq(s, 1, m)) \o lower(SubSeq(s, m + 1, Len(s)))

UserIdChars ==
    {"0", "1", "2", "3", "4", "5", "6", "7", "8", "9", "A", "B", "C", "D",
     "E", "F", "G", "H", "I", "J", "K", "L", "M", "N", "O", "P", "Q", "R",
     "S", "T", "U", "V", "W", "X", "Y", "Z", "_", "-", "a", "b", "c", "d",
     "e", "f", "g", "h", "i", "j", "k", "l", "m", "n", "o", "p", "q", "r",
     "s", "t", "u", "v", "w", "x", "y", "z"}

RECURSIVE AllCharsIn(_, _)
AllCharsIn(s, chars) ==
    IF Len(s) = 0 THEN TRUE
    ELSE IF Len(s) = 1 THEN s \in chars
    ELSE LET m == Len(s) \div 2
         IN  /\ AllCharsIn(SubSeq(s, 1, m), chars)
             /\ AllCharsIn(SubSeq(s, m + 1, Len(s)), chars)

\* ok = FALSE stands for the ValidationError, error for its message.
validate_user_id(user_id) ==
    LET sanitized == sanitize_text(user_id, max_user_id_length)
    IN  IF user_id = ""
        THEN [ok |-> FALSE, text |-> "", error |-> "User ID is required"]
        ELSE IF ~sanitized.ok THEN sanitized
        ELSE IF sanitized.text # "" /\ AllCharsIn(sanitized.text, UserIdChars)
             THEN sanitized
             ELSE [ok |-> FALSE, text |-> "",
                   error |-> "User ID contains invalid characters"]

validate_message(message) ==
    LET sanitized == sanitize_text(message, ValidateMessageMax)
    IN  IF ~sanitized.ok THEN sanitized
        ELSE IF sanitized.text = ""
             THEN [ok |-> FALSE, text |-> "",
                   error |-> "Message cannot be empty"]
             ELSE sanitized

valid_languages ==
    {"en", "es", "fr", "de", "it", "pt", "ru", "ja", "ko", "zh", "ar", "hi",
     "auto", "zh-CN", "zh-TW", "pt-BR", "pt-PT"}

validate_language_code(language) ==
    IF lower(language) \notin valid_languages
    THEN [ok |-> FALSE, text |-> "",
          error |-> "Unsupported language code: " \o language]
    ELSE [ok |-> TRUE, text |-> lower(language), error |-> None]

\* The keys of the form of a chat request; None is a key the form lacks.
FormKeys ==
    {"user_id", "message", "from_name", "to_name", "situation",
     "translate_from", "translate_to"}

\* One field of validate_form_dict: user_id and message are validated
\* when present, the other fields when present and not empty, and an
\* empty one of those is left out of the validated form.
validate_form_field(key, value) ==
    IF value = None THEN [ok |-> TRUE, text |-> None, error |-> None]
    ELSE IF key = "user_id" THEN validate_user_id(value)
    ELSE IF key = "message" THEN validate_message(value)
    ELSE IF value = "" THEN [ok |-> TRUE, text |-> None, error |-> None]
    ELSE IF key \in {"translate_from", "translate_to"}
         THEN validate_language_code(value)
         ELSE sanitize_text(value, FormFieldMax)

\* validate_form_dict: the validated form, or the first ValidationError in
\* the order of the checks.
validate_form_dict(form_dict) ==
    LET order == <<"user_id", "message", "from_name", "to_name", "situation",
                   "translate_from", "translate_to">>
        checked == [k \in FormKeys |-> validate_form_field(k, form_dict[k])]
        failed == {i \in 1..7 : ~checked[order[i]].ok}
    IN  IF failed = {}
        THEN [ok |-> TRUE, form |-> [k \in FormKeys |-> checked[k].text],
              error |-> None]
        ELSE [ok |-> FALSE, form |-> form_dict,
              error |-> checked[order[CHOOSE i \in failed :
                                         \A j \in failed : i <= j]].error]

-----------------------------------------------------------------------------
(* Languages *)

languages ==
    {"af", "sq", "am", "ar", "hy", "az", "eu", "be", "bn", "bs", "bg", "ca",
     "ceb", "Zh-CN", "zh-CN", "zh", "Zh-TW", "zh-TW", "co", "hr", "cs", "da",
     "nl", "en", "eo", "et", "fi", "fr", "fy", "gl", "ka", "de", "el", "gu",
     "ht", "ha", "haw", "he", "iw", "hi", "hmn", "hu", "is", "ig", "id", "ga",
     "it", "ja", "jv", "kn", "kk", "km", "rw", "ko", "ku", "ky", "lo", "la",
     "lv", "lt", "lb", "mk", "mg", "ms", "ml", "mt", "mi", "mr", "mn", "my",
     "ne", "no", "ny", "or", "ps", "fa", "pl", "pt", "pa", "ro", "ru", "sm",
     "gd", "sr", "st", "sn", "sd", "si", "sk", "sl", "so", "es", "su", "sw",
     "sv", "tl", "tg", "ta", "tt", "te", "th", "tr", "tk", "uk", "ur", "ug",
     "uz", "vi", "cy", "xh", "yi", "yo", "zu"}

\* The resolver that defaults only a missing tag.
language_defaulter_missing(language) ==
    IF language = None THEN "auto" ELSE language

language_defaulter(language) ==
    IF language \in languages THEN language ELSE "auto"

-----------------------------------------------------------------------------
(* Translation Bridge: waifuapi_translate.translate_text *)

\* A dict of the service, with None for a key it does not hold.
EmptyDict == [translatedText |-> None, detectedSourceLanguage |-> None]

\* What the external service makes of a text; any function that changes
\* the text and depends on the target serves.
GoogleTranslate(target, text) == "[" \o target \o "] " \o text

\* outcome.kind is what happens inside the try block: "ok", the
\* ServiceUnavailable of the client ("unavailable") or any other exception
\* ("error"); outcome.detected is the detectedSourceLanguage of the
\* service's answer, None when the answer has none.  Both handlers return a
\* dict, so translate_text raises nothing.
translate_text(target, text, source_language, outcome) ==
    IF outcome.kind = "ok"
    THEN IF source_language = "en" /\ target = "en"
         THEN [translatedText |-> text, detectedSourceLanguage |-> "en"]
         ELSE [translatedText |-> GoogleTranslate(target, text),
               detectedSourceLanguage |-> outcome.detected]
    ELSE IF outcome.kind = "unavailable"
         THEN [translatedText |-> "Translation service unavailable",
               detectedSourceLanguage |-> source_language]
         ELSE [translatedText |-> "Translation error",
               detectedSourceLanguage |-> source_language]

\* dict.get(key, default)
DictGet(value, default) == IF value = None THEN default ELSE value

-----------------------------------------------------------------------------
(* The dialogs table: a bag of rows, PRIMARY KEY (current_user, user_id) *)

Row(current_user, user_id, dialog, context) ==
    [current_user |-> current_user, user_id |-> user_id,
     dialog |-> dialog, context |-> context]

Matching(t, current_user, user_id) ==
    {r \in BagToSet(t) : r.current_user = current_user /\ r.user_id = user_id}

\* The table without the rows of a set.
Without(t, rows) == [r \in (BagToSet(t) \ rows) |-> t[r]]

RowCount(t, current_user, user_id) ==
    BagCardinality([r \in Matching(t, current_user, user_id) |-> t[r]])

is_user_id_in_db(t, current_user, user_id) ==
    Matching(t, current_user, user_id) # {}

\* SELECT dialog ... fetchone(): the dialog of the row, "" without one.
get_old_dialog(t, current_user, user_id) ==
    LET m == Matching(t, current_user, user_id)
    IN  IF m = {} THEN "" ELSE (CHOOSE r \in m : TRUE).dialog

get_user_dialog(t, current_user, user_id) ==
    get_old_dialog(t, current_user, user_id)

\* The INSERT on a table that has no primary key: nothing is skipped.
pool_add_user_to_db_nokey(t, current_user, user_id) ==
    t (+) SetToBag({Row(current_user, user_id, "", None)})

\* INSERT OR REPLACE in place of INSERT OR IGNORE: the row holding the key
\* is replaced by one with an empty dialog.
pool_add_user_to_db_replace(t, current_user, user_id) ==
    Without(t, Matching(t, current_user, user_id))
        (+) SetToBag({Row(current_user, user_id, "", None)})

\* waifuapi_db_pool.add_user_to_db: INSERT OR IGNORE, which skips the row
\* when the primary key is taken.
pool_add_user_to_db(t, current_user, user_id) ==
    IF Matching(t, current_user, user_id) # {}
    THEN t
    ELSE t (+) SetToBag({Row(current_user, user_id, "", None)})

\* waifuapi_db.add_user_to_db: a plain INSERT, which fails with
\* sqlite3.IntegrityError (ok = FALSE) when the primary key is taken.
db_add_user_to_db(t, current_user, user_id) ==
    IF Matching(t, current_user, user_id) # {}
    THEN [ok |-> FALSE, table |-> t]
    ELSE [ok |-> TRUE,
          table |-> t (+) SetToBag({Row(current_user, user_id, "", None)})]

\* INSERT OR IGNORE in place of INSERT OR REPLACE: the write is skipped
\* when the key has a row.
pool_update_user_dialog_ignore(t, current_user, user_id, dialog) ==
    IF Matching(t, current_user, user_id) # {}
    THEN t
    ELSE t (+) SetToBag({Row(current_user, user_id, dialog, None)})

\* waifuapi_db_pool.update_user_dialog: INSERT OR REPLACE, which deletes
\* the row holding the key and inserts a new one, context NULL.
pool_update_user_dialog(t, current_user, user_id, dialog) ==
    Without(t, Matching(t, current_user, user_id))
        (+) SetToBag({Row(current_user, user_id, dialog, None)})

\* waifuapi_db.update_user_dialog: UPDATE ... WHERE, which changes the
\* rows holding the key and inserts nothing.
db_update_user_dialog(t, current_user, user_id, dialog) ==
    LET m == Matching(t, current_user, user_id)
    IN  Without(t, m)
          (+) BagOfAll(LAMBDA r : [r EXCEPT !.dialog = dialog],
                       [r \in m |-> t[r]])

\* SELECT COUNT(*) FROM dialogs WHERE current_user=?
get_user_count(t, current_user) ==
    BagCardinality([r \in {x \in BagToSet(t) : x.current_user = current_user}
                      |-> t[r]])

\* SELECT context ... fetchone(): the context of the row, "" without one.
get_user_context(t, current_user, user_id) ==
    LET m == Matching(t, current_user, user_id)
    IN  IF m = {} THEN "" ELSE (CHOOSE r \in m : TRUE).context

\* waifuapi_db_pool.set_user_context: UPDATE dialogs SET context=? ...
\* WHERE current_user=? AND user_id=?
pool_set_user_context(t, current_user, user_id, context) ==
    LET m == Matching(t, current_user, user_id)
    IN  Without(t, m)
          (+) BagOfAll(LAMBDA r : [r EXCEPT !.context = context],
                       [r \in m |-> t[r]])

\* The rows of a key, with their multiplicities.
RowsOf(t, current_user, user_id) ==
    [r \in Matching(t, current_user, user_id) |-> t[r]]

\* A reset that removes the row instead of emptying its dialog.
pool_reset_user_chat_delete(t, current_user, user_id) ==
    Without(t, Matching(t, current_user, user_id))

\* waifuapi_db_pool.reset_user_chat: update_user_dialog with ''.
pool_reset_user_chat(t, current_user, user_id) ==
    pool_update_user_dialog(t, current_user, user_id, "")

\* A DELETE whose WHERE clause names the user_id only.
pool_delete_user_from_db_any_tenant(t, current_user, user_id) ==
    Without(t, {r \in BagToSet(t) : r.user_id = user_id})

\* An UPDATE that empties the dialog in place of the DELETE.
pool_delete_user_from_db_keep(t, current_user, user_id) ==
    LET m == Matching(t, current_user, user_id)
    IN  Without(t, m)
          (+) BagOfAll(LAMBDA r : [r EXCEPT !.dialog = ""], [r \in m |-> t[r]])

\* waifuapi_db_pool.delete_user_from_db: DELETE ... WHERE current_user=?
\* AND user_id=?
pool_delete_user_from_db(t, current_user, user_id) ==
    Without(t, Matching(t, current_user, user_id))

\* The module the name waifuapi_db stands for in process_message, which
\* imports the functions of waifuapi_db_pool and calls them as
\* waifuapi_db.<function>.
StoreModules == {"waifuapi_db", "waifuapi_db_pool"}

add_user_to_db(module, t, current_user, user_id) ==
    IF module = "waifuapi_db"
    THEN db_add_user_to_db(t, current_user, user_id)
    ELSE [ok |-> TRUE, table |-> pool_add_user_to_db(t, current_user, user_id)]

update_user_dialog(module, t, current_user, user_id, dialog) ==
    IF module = "waifuapi_db"
    THEN db_update_user_dialog(t, current_user, user_id, dialog)
    ELSE pool_update_user_dialog(t, current_user, user_id, dialog)

-----------------------------------------------------------------------------
(* The dialog as data: blueprints/dialog.py and validate_dialog_json *)

SetMin(S) == CHOOSE x \in S : \A y \in S : x <= y

\* The positions of the double quotes of s from pos on.
QuotesFrom(s, pos) == {i \in pos..Len(s) : SubSeq(s, i, i) = "\""}

\* re.findall(r'([^"]+)\s+said:\s+"([^"]+)"', dialog) from position pos,
\* as the pairs (name.strip(), message).  A match that starts at pos ends
\* at the second quote from pos: the text before the first quote has to
\* be a name of one character or more, whitespace, "said:" and whitespace
\* again, and the text between the two quotes must not be empty.  The
\* greedy name group gives all but one of the characters before "said:".
\* Without a match up to the first quote the search goes on behind it.
\* The only whitespace in the texts of the model is the space.
RECURSIVE FindAll(_, _)
FindAll(s, pos) ==
    IF QuotesFrom(s, pos) = {} THEN <<>>
    ELSE LET q == SetMin(QuotesFrom(s, pos))
             run == SubSeq(s, pos, q - 1)
             r == rstrip(run)
             before == SubSeq(r, 1, Len(r) - 5)
             okName == /\ Len(r) < Len(run)
                       /\ IsSuffix("said:", r)
                       /\ Len(before) >= 2
                       /\ SubSeq(before, Len(before), Len(before)) = " "
             okMessage == /\ QuotesFrom(s, q + 1) # {}
                          /\ SetMin(QuotesFrom(s, q + 1)) > q + 1
         IN  IF okName /\ okMessage
             THEN LET q2 == SetMin(QuotesFrom(s, q + 1))
                  IN  <<[name |-> strip(SubSeq(before, 1, Len(before) - 1)),
                         message |-> SubSeq(s, q + 1, q2 - 1)]>>
                        \o FindAll(s, q2 + 1)
             ELSE FindAll(s, q + 1)

\* dialog_to_json: the matches, numbered from 0.
dialog_to_json(dialog) ==
    LET matches == FindAll(dialog, 1)
    IN  [i \in 1..Len(matches) |->
           [index |-> i - 1, name |-> matches[i].name,
            message |-> matches[i].message]]

\* json_to_dialog: " ".join of '{name} said: "{message}"'.
RECURSIVE json_to_dialog(_)
json_to_dialog(dialog) ==
    IF dialog = <<>> THEN ""
    ELSE LET entry == dialog[1]
             head == entry.name \o " said: \"" \o entry.message \o "\""
         IN  IF Len(dialog) = 1 THEN head
             ELSE head \o " " \o json_to_dialog(Tail(dialog))

\* validate_dialog_json on a list of entries that hold the three keys:
\* the entries with name and message sanitized, or the first
\* ValidationError.
validate_dialog_json(dialog_list) ==
    LET names == [i \in 1..Len(dialog_list) |->
                    sanitize_text(dialog_list[i].name, DialogNameMax)]
        messages == [i \in 1..Len(dialog_list) |->
                       validate_message(dialog_list[i].message)]
        failed == {i \in 1..Len(dialog_list) :
                     ~names[i].ok \/ ~messages[i].ok}
    IN  IF failed = {}
        THEN [ok |-> TRUE, error |-> None,
              dialog |-> [i \in 1..Len(dialog_list) |->
                            [index |-> dialog_list[i].index,
                             name |-> names[i].text,
                             message |-> messages[i].text]]]
        ELSE LET i == SetMin(failed)
             IN  [ok |-> FALSE, dialog |-> <<>>,
                  error |-> IF names[i].ok THEN messages[i].error
                            ELSE names[i].error]

-----------------------------------------------------------------------------
(* Prompt assembly: process_message, from the loaded transcript to the     *)
(* two strings it builds                                                   *)

\* The entry built without the case of an empty from_name: the name is
\* written as it is.
dialog_entry_no_you(from_name, message, to_name) ==
    IF from_name = "" /\ message = ""
    THEN " " \o to_name \o " said: \""
    ELSE " " \o from_name \o " said: \"" \o message \o "\" "
             \o to_name \o " said: \""

\* The new entry, without the text before it.
dialog_entry(from_name, message, to_name) ==
    IF from_name = "" /\ message = ""
    THEN " " \o to_name \o " said: \""
    ELSE IF from_name = ""
         THEN " You said: \"" \o message \o "\" " \o to_name \o " said: \""
         ELSE " " \o from_name \o " said: \"" \o message \o "\" "
                  \o to_name \o " said: \""

\* Every value of the assembly, the strings before their last cut
\* (the candidates) included.
Assemble(dialog_loaded, situation_in, from_name, message, to_name, max_len_dialog) ==
    LET situation == LastChars(situation_in, SituationKeep)
        len_dialog == max_len_dialog - Len(situation)
        dialog_old == LastChars(dialog_loaded, len_dialog)
        new_full == dialog_old \o dialog_entry(from_name, message, to_name)
        send_full == "[ Genre: " \o default_genre \o " ] " \o dialog_old
                         \o " " \o situation
                         \o dialog_entry(from_name, message, to_name)
    IN  [situation |-> situation,
         len_dialog |-> len_dialog,
         dialog_old |-> dialog_old,
         dialog_new_full |-> new_full,
         dialog_new |-> LastChars(new_full, len_dialog),
         dialog_to_send_full |-> send_full,
         dialog_to_send |-> LastChars(send_full, len_dialog)]

\* The check with its first pattern only.
is_html_error_unbracketed(response) ==
    startswith(response, "!DOCTYPE HTML")

\* The check for an HTML error page in place of a completion.
is_html_error(response) ==
    \/ startswith(response, "!DOCTYPE HTML")
    \/ startswith(response, "<!DOCTYPE HTML")

\* What process_message keeps of the gateway's text.
checked_response(text) ==
    IF is_html_error(text) THEN MSG_UNAVAILABLE ELSE text

\* The cut of the stored string made at the budget of the turn's
\* default instead of the storage ceiling.
dialog_to_store_budget(dialog_new, response) ==
    LastChars(dialog_new \o response \o "\"", DefaultMaxLenDialog)

dialog_to_store(dialog_new, response) ==
    LastChars(dialog_new \o response \o "\"", StoreKeep)

\* The chain without its same-language skip for a detected "en".
outbound_target_noskip(translate_from, translate_to, detected_language) ==
    IF translate_to # "auto" THEN translate_to
    ELSE IF translate_from = "auto" THEN detected_language
    ELSE IF translate_from = "en" THEN None
    ELSE translate_from

\* The chain without its branch for an "en" source.
outbound_target_back(translate_from, translate_to, detected_language) ==
    IF translate_to # "auto" THEN translate_to
    ELSE IF translate_from = "auto" /\ detected_language = "en" THEN None
    ELSE IF translate_from = "auto" THEN detected_language
    ELSE translate_from

\* The outbound choice: the target of the translate_text call, None when
\* no call is made.
outbound_target(translate_from, translate_to, detected_language) ==
    IF translate_to # "auto" THEN translate_to
    ELSE IF translate_from = "auto" /\ detected_language = "en" THEN None
    ELSE IF translate_from = "auto" THEN detected_language
    ELSE IF translate_from = "en" THEN None
    ELSE translate_from

\* process_chat_message, after process_form_dict: the "error" token
\* becomes the retry notice.
chat_reply(response) ==
    IF response = TEMP_ERROR_MSG THEN MSG_TEMP_ERROR ELSE response

\* process_form_dict: form_dict.get(key, default)
FormGet(value, default) == IF value = None THEN default ELSE value

-----------------------------------------------------------------------------
(* Requests *)

\* The form of a request that holds no key.
EmptyForm == [k \in FormKeys |-> None]

IdleTurn ==
    [pc |-> "idle", op |-> "none", entry |-> "", form |-> EmptyForm,
     current_user |-> "", user_id |-> "", message |-> "",
     from_name |-> "", to_name |-> "", situation |-> "",
     translate_from |-> "", translate_to |-> "",
     max_len_dialog |-> 0, module |-> "",
     translation_dict |-> EmptyDict, calls |-> <<>>,
     dialog_loaded |-> "", len_dialog |-> 0, dialog_old |-> "",
     dialog_new_full |-> "", dialog_new |-> "",
     dialog_to_send_full |-> "", dialog_to_send |-> "",
     gateway |-> None, failure |-> None, response |-> "",
     dialog_to_store |-> "", posts |-> 0, writes |-> 0,
     exists |-> FALSE, wrote |-> FALSE, error |-> None,
     body |-> <<>>, dialog_json |-> None,
     ret |-> None, reply |-> None, status |-> 0]

\* The turn returns r from process_message.
Returned(t, r) ==
    [t EXCEPT !.pc = "done", !.ret = r, !.reply = chat_reply(r)]

\* The handler that answers an exception with the exception's own text.
Raised_str(t, e) ==
    [t EXCEPT !.pc = "done", !.ret = None, !.reply = e, !.error = e]

\* An exception of text e leaves validate_form_dict or process_message;
\* process_chat_message catches it and answers default_msg.
Raised(t, e) ==
    [t EXCEPT !.pc = "done", !.ret = None, !.reply = default_msg,
              !.error = e]

\* The text of the sqlite3.Error of a failing statement.
SqliteError == "database is locked"

\* The texts of the exceptions of requests.post and raise_for_status.
GatewayErrors ==
    [timeout |-> "Read timed out. (read timeout=30)",
     connection |-> "Max retries exceeded with url: /path/",
     http |-> "502 Server Error: Bad Gateway for url",
     request |-> "Exceeded 30 redirects."]

\* process_chat_message (entry "endpoint": validate_form_dict, then
\* process_form_dict) or a direct call of process_message (entry
\* "direct"), and the first lines of process_message.  W holds the sets
\* the request's values are drawn from; None is a key the form lacks.
\* process_form_dict passes no max_len_dialog, so a budget other than
\* DefaultMaxLenDialog is a direct call of process_message.
Receive(p, W) ==
    /\ turn[p].pc = "idle"
    /\ started < W.max_requests
    /\ \E cu \in W.current_users, uid \in W.user_ids, m \in W.messages,
          fn \in W.from_names, tn \in W.to_names, sit \in W.situations,
          tf \in W.translate_froms, tt \in W.translate_tos,
          budget \in W.budgets, mod \in W.modules, entry \in W.entries :
         LET form_dict == [user_id |-> uid, message |-> m, from_name |-> fn,
                           to_name |-> tn, situation |-> sit,
                           translate_from |-> tf, translate_to |-> tt]
             v == IF entry = "endpoint" THEN validate_form_dict(form_dict)
                  ELSE [ok |-> TRUE, form |-> form_dict, error |-> None]
             f == v.form
             user_id == IF FormGet(f.user_id, "default2") = "" THEN "default2"
                        ELSE FormGet(f.user_id, "default2")
             t0 == [IdleTurn EXCEPT !.op = "turn", !.entry = entry,
                                    !.form = form_dict, !.current_user = cu]
         IN turn' = [turn EXCEPT ![p] =
              IF ~v.ok THEN Raised(t0, v.error)
              ELSE [t0 EXCEPT
                 !.pc = "translate_in",
                 !.user_id = LastChars(user_id, max_user_id_length),
                 !.message = LastChars(FormGet(f.message, ""),
                                       max_message_length),
                 !.from_name = LastChars(FormGet(f.from_name, ""),
                                         max_name_length),
                 !.to_name = LastChars(FormGet(f.to_name, "Waifu"),
                                       max_name_length),
                 !.situation = FormGet(f.situation, ""),
                 !.translate_from =
                     language_defaulter(FormGet(f.translate_from, "auto")),
                 !.translate_to =
                     language_defaulter(FormGet(f.translate_to, "auto")),
                 !.max_len_dialog = IF entry = "endpoint"
                                    THEN DefaultMaxLenDialog ELSE budget,
                 !.module = mod]]
    /\ started' = started + 1
    /\ UNCHANGED <<dialogs, poolvars>>

\* Inbound translation, then clean_paragraph of message and situation,
\* whose ValidationError nothing in process_message catches.
TranslateIn(p, W) ==
    LET t == turn[p] IN
    /\ t.pc = "translate_in"
    /\ \E o \in (IF t.translate_from = "en" THEN {[kind |-> "none"]}
                 ELSE W.outcomes) :
         LET dict == IF t.translate_from = "en" THEN EmptyDict
                     ELSE translate_text("en", t.message, t.translate_from, o)
             message == IF t.translate_from = "en" THEN t.message
                        ELSE DictGet(dict.translatedText, t.message)
             calls == IF t.translate_from = "en" THEN t.calls
                      ELSE Append(t.calls, [target |-> "en",
                                            source |-> t.translate_from,
                                            outcome |-> o.kind])
             cm == clean_paragraph(message)
             cs == clean_paragraph(t.situation)
         IN turn' = [turn EXCEPT ![p] =
              IF cm.ok /\ cs.ok
              THEN [t EXCEPT !.pc = "check_user", !.translation_dict = dict,
                             !.calls = calls, !.message = cm.text,
                             !.situation = cs.text]
              ELSE Raised([t EXCEPT !.translation_dict = dict,
                                    !.calls = calls],
                          IF cm.ok THEN cs.error ELSE cm.error)]
    /\ UNCHANGED <<dialogs, started, poolvars>>

\* if not is_user_id_in_db(...); fails stands for a sqlite3.Error of the
\* statement, answered by the database message.
CheckUser(p, W) ==
    LET t == turn[p] IN
    /\ t.pc = "check_user"
    /\ \E fails \in W.db_errors :
         turn' = [turn EXCEPT ![p] =
                  IF fails
                  THEN Returned([t EXCEPT !.error = SqliteError], MSG_DB_ERROR)
                  ELSE IF is_user_id_in_db(dialogs, t.current_user, t.user_id)
                  THEN [t EXCEPT !.pc = "load", !.exists = TRUE]
                  ELSE [t EXCEPT !.pc = "add_user", !.exists = FALSE]]
    /\ UNCHANGED <<dialogs, started, poolvars>>

\* add_user_to_db(...), its exception answered by the database message.
AddUser(p, W) ==
    LET t == turn[p]
        r == add_user_to_db(t.module, dialogs, t.current_user, t.user_id)
    IN
    /\ t.pc = "add_user"
    /\ \E fails \in W.db_errors :
         /\ dialogs' = IF fails THEN dialogs ELSE r.table
         /\ turn' = [turn EXCEPT ![p] =
                  IF fails
                  THEN Returned([t EXCEPT !.error = SqliteError], MSG_DB_ERROR)
                  ELSE IF r.ok THEN [t EXCEPT !.pc = "load"]
                  ELSE Returned([t EXCEPT !.error =
                                   "UNIQUE constraint failed: dialogs.current_user, dialogs.user_id"],
                                MSG_DB_ERROR)]
    /\ UNCHANGED <<started, poolvars>>

\* get_old_dialog(...), whose sqlite3.Error nothing in process_message
\* catches, and the assembly of the two strings.
Load(p, W) ==
    LET t == turn[p]
        loaded == get_old_dialog(dialogs, t.current_user, t.user_id)
        a == Assemble(loaded, t.situation, t.from_name, t.message, t.to_name,
                      t.max_len_dialog)
    IN
    /\ t.pc = "load"
    /\ \E fails \in W.db_errors :
         turn' = [turn EXCEPT ![p] =
                  IF fails THEN Raised(t, SqliteError)
                  ELSE [t EXCEPT !.pc = "dispatch",
                            !.dialog_loaded = loaded,
                            !.situation = a.situation,
                            !.len_dialog = a.len_dialog,
                            !.dialog_old = a.dialog_old,
                            !.dialog_new_full = a.dialog_new_full,
                            !.dialog_new = a.dialog_new,
                            !.dialog_to_send_full = a.dialog_to_send_full,
                            !.dialog_to_send = a.dialog_to_send]]
    /\ UNCHANGED <<dialogs, started, poolvars>>

\* One message for every gateway failure: the subtype is only logged.
GatewayFailures_generic ==
    [timeout |-> MSG_UNAVAILABLE, connection |-> MSG_UNAVAILABLE,
     http |-> MSG_UNAVAILABLE, request |-> MSG_UNAVAILABLE]

GatewayFailures ==
    [timeout |-> MSG_TIMEOUT, connection |-> MSG_CONNECTION,
     http |-> MSG_HTTP_ERROR, request |-> MSG_REQUEST_FAILED]

\* The turn after requests.post: the text is kept, or the failure is
\* answered by its message.
AfterPost(t, g) ==
    IF g.kind = "text"
    THEN [t EXCEPT !.pc = "persist", !.posts = @ + 1,
                   !.gateway = g.text,
                   !.response = checked_response(g.text),
                   !.dialog_to_store =
                       dialog_to_store(t.dialog_new, checked_response(g.text))]
    ELSE Returned([t EXCEPT !.posts = @ + 1, !.failure = g.kind,
                            !.error = GatewayErrors[g.kind]],
                  GatewayFailures[g.kind])

\* A dispatch that stores the transcript with the failure's message as
\* the completion before it answers.
Dispatch_store_failure(p, W) ==
    LET t == turn[p] IN
    /\ t.pc = "dispatch"
    /\ \E g \in W.gateway :
         /\ turn' = [turn EXCEPT ![p] = AfterPost(t, g)]
         /\ dialogs' =
              IF g.kind = "text" THEN dialogs
              ELSE update_user_dialog(t.module, dialogs, t.current_user,
                       t.user_id,
                       dialog_to_store(t.dialog_new, GatewayFailures[g.kind]))
    /\ UNCHANGED <<started, poolvars>>

\* A dispatch that posts a second time after a failure of the first.
Dispatch_retry(p, W) ==
    LET t == turn[p] IN
    /\ t.pc = "dispatch"
    /\ \E g \in W.gateway :
         turn' = [turn EXCEPT ![p] =
                    IF g.kind # "text" /\ t.posts = 0
                    THEN [t EXCEPT !.posts = @ + 1]
                    ELSE AfterPost(t, g)]
    /\ UNCHANGED <<dialogs, started, poolvars>>

\* requests.post(...): the gateway answers with a text or fails.
Dispatch(p, W) ==
    LET t == turn[p] IN
    /\ t.pc = "dispatch"
    /\ \E g \in W.gateway :
         turn' = [turn EXCEPT ![p] = AfterPost(t, g)]
    /\ UNCHANGED <<dialogs, started, poolvars>>

\* update_user_dialog(...), its exception answered by the save message.
Persist(p, W) ==
    LET t == turn[p] IN
    /\ t.pc = "persist"
    /\ \E fails \in W.db_errors :
         /\ dialogs' = IF fails THEN dialogs
                       ELSE update_user_dialog(t.module, dialogs,
                                t.current_user, t.user_id, t.dialog_to_store)
         /\ turn' = [turn EXCEPT ![p] =
                  IF fails
                  THEN Returned([t EXCEPT !.error = SqliteError],
                                MSG_DB_SAVE_ERROR)
                  ELSE [t EXCEPT !.pc = "translate_out", !.wrote = TRUE,
                                 !.writes = @ + 1]]
    /\ UNCHANGED <<started, poolvars>>

\* The translation back, and the return of the response.
TranslateOut(p, W) ==
    LET t == turn[p]
        detected_language ==
            language_defaulter(t.translation_dict.detectedSourceLanguage)
        target == outbound_target(t.translate_from, t.translate_to,
                                  detected_language)
    IN
    /\ t.pc = "translate_out"
    /\ \E o \in (IF target = None THEN {[kind |-> "none"]} ELSE W.outcomes) :
         LET result == IF target = None THEN EmptyDict
                       ELSE translate_text(target, t.response, "en", o)
             response == DictGet(result.translatedText, t.response)
             calls == IF target = None THEN t.calls
                      ELSE Append(t.calls, [target |-> target,
                                            source |-> "en",
                                            outcome |-> o.kind])
         IN turn' = [turn EXCEPT ![p] =
                       Returned([t EXCEPT !.calls = calls], response)]
    /\ UNCHANGED <<dialogs, started, poolvars>>

\* The response is sent; the worker takes the next request.
Respond(p) ==
    /\ turn[p].pc = "done"
    /\ turn' = [turn EXCEPT ![p] = IdleTurn]
    /\ UNCHANGED <<dialogs, started, poolvars>>

-----------------------------------------------------------------------------
(* The create-user endpoint: blueprints/users.py create_user_id *)

\* The request arrives and its user_id is validated.
CreateStart(p, W) ==
    /\ turn[p].pc = "idle"
    /\ started < W.max_requests
    /\ \E cu \in W.current_users, uid \in W.create_ids :
         LET v == validate_user_id(uid)
         IN turn' = [turn EXCEPT ![p] =
              IF v.ok
              THEN [IdleTurn EXCEPT !.pc = "create_check", !.op = "create",
                                    !.current_user = cu, !.user_id = v.text]
              ELSE [IdleTurn EXCEPT !.pc = "done", !.op = "create",
                                    !.current_user = cu, !.status = 400]]
    /\ started' = started + 1
    /\ UNCHANGED <<dialogs, poolvars>>

\* if not is_user_id_in_db(...)
CreateCheck(p) ==
    LET t == turn[p] IN
    /\ t.pc = "create_check"
    /\ turn' = [turn EXCEPT ![p] =
                  IF is_user_id_in_db(dialogs, t.current_user, t.user_id)
                  THEN [t EXCEPT !.pc = "done", !.exists = TRUE,
                                 !.status = 200]
                  ELSE [t EXCEPT !.pc = "create_add", !.exists = FALSE]]
    /\ UNCHANGED <<dialogs, started, poolvars>>

\* add_user_to_db(...) of waifuapi_db_pool
CreateAdd(p) ==
    LET t == turn[p] IN
    /\ t.pc = "create_add"
    /\ dialogs' = pool_add_user_to_db(dialogs, t.current_user, t.user_id)
    /\ turn' = [turn EXCEPT ![p] = [t EXCEPT !.pc = "done", !.status = 200]]
    /\ UNCHANGED <<started, poolvars>>

-----------------------------------------------------------------------------
(* The endpoints of a stored user: blueprints/dialog.py, blueprints/users.py *)

\* The first lines of each of these handlers: validate_user_id, whose
\* ValidationError handle_exception answers with status 400.
HandlerStart(p, W, op, body) ==
    /\ turn[p].pc = "idle"
    /\ started < W.max_requests
    /\ \E cu \in W.current_users, uid \in W.create_ids :
         LET v == validate_user_id(uid)
             t0 == [IdleTurn EXCEPT !.op = op, !.current_user = cu,
                                    !.body = body]
         IN turn' = [turn EXCEPT ![p] =
              IF v.ok
              THEN [t0 EXCEPT !.pc = op \o "_check", !.user_id = v.text]
              ELSE [t0 EXCEPT !.pc = "done", !.status = 400,
                              !.error = v.error]]
    /\ started' = started + 1
    /\ UNCHANGED <<dialogs, poolvars>>

\* if not is_user_id_in_db(...): return ... status=404
HandlerCheck(p, op, next_pc) ==
    LET t == turn[p] IN
    /\ t.pc = op \o "_check"
    /\ turn' = [turn EXCEPT ![p] =
                  IF is_user_id_in_db(dialogs, t.current_user, t.user_id)
                  THEN [t EXCEPT !.pc = next_pc, !.exists = TRUE]
                  ELSE [t EXCEPT !.pc = "done", !.exists = FALSE,
                                 !.status = 404]]
    /\ UNCHANGED <<dialogs, started, poolvars>>

\* PUT /json/<user_id>: update_user_dialog_json
PutStart(p, W) == \E body \in W.bodies : HandlerStart(p, W, "put", body)

PutCheck(p) == HandlerCheck(p, "put", "put_write")

\* validate_dialog_json, json_to_dialog and update_user_dialog.
PutWrite(p) ==
    LET t == turn[p]
        validated == validate_dialog_json(t.body)
        dialog_str == json_to_dialog(validated.dialog)
    IN
    /\ t.pc = "put_write"
    /\ dialogs' = IF validated.ok
                  THEN pool_update_user_dialog(dialogs, t.current_user,
                                               t.user_id, dialog_str)
                  ELSE dialogs
    /\ turn' = [turn EXCEPT ![p] =
                  IF validated.ok
                  THEN [t EXCEPT !.pc = "done", !.status = 200,
                                 !.wrote = TRUE,
                                 !.dialog_to_store = dialog_str]
                  ELSE [t EXCEPT !.pc = "done", !.status = 400,
                                 !.error = validated.error]]
    /\ UNCHANGED <<started, poolvars>>

\* GET /json/<user_id>: get_user_dialog_json
GetStart(p, W) == HandlerStart(p, W, "get", <<>>)

GetCheck(p) == HandlerCheck(p, "get", "get_read")

\* get_user_dialog and dialog_to_json.
GetRead(p) ==
    LET t == turn[p]
        dialog_str == get_user_dialog(dialogs, t.current_user, t.user_id)
    IN
    /\ t.pc = "get_read"
    /\ turn' = [turn EXCEPT ![p] =
                  [t EXCEPT !.pc = "done", !.status = 200,
                            !.dialog_loaded = dialog_str,
                            !.dialog_json = dialog_to_json(dialog_str)]]
    /\ UNCHANGED <<dialogs, started, poolvars>>

\* DELETE /<user_id> of the dialog blueprint: reset_user_chat_endpoint
ResetStart(p, W) == HandlerStart(p, W, "reset", <<>>)

ResetCheck(p) == HandlerCheck(p, "reset", "reset_write")

ResetWrite(p) ==
    LET t == turn[p] IN
    /\ t.pc = "reset_write"
    /\ dialogs' = pool_reset_user_chat(dialogs, t.current_user, t.user_id)
    /\ turn' = [turn EXCEPT ![p] = [t EXCEPT !.pc = "done", !.status = 200,
                                             !.wrote = TRUE]]
    /\ UNCHANGED <<started, poolvars>>

\* DELETE /id/<user_id> of the users blueprint: delete_user_id
DeleteStart(p, W) == HandlerStart(p, W, "delete", <<>>)

DeleteCheck(p) == HandlerCheck(p, "delete", "delete_write")

DeleteWrite(p) ==
    LET t == turn[p] IN
    /\ t.pc = "delete_write"
    /\ dialogs' = pool_delete_user_from_db(dialogs, t.current_user, t.user_id)
    /\ turn' = [turn EXCEPT ![p] = [t EXCEPT !.pc = "done", !.status = 200,
                                             !.wrote = TRUE]]
    /\ UNCHANGED <<started, poolvars>>

\* A call of set_user_context, which no endpoint makes: one statement.
SetContext(p, W) ==
    /\ turn[p].pc = "idle"
    /\ started < W.max_requests
    /\ \E cu \in W.current_users, uid \in W.user_ids, c \in W.contexts :
         /\ dialogs' = pool_set_user_context(dialogs, cu, uid, c)
         /\ turn' = [turn EXCEPT ![p] =
                       [IdleTurn EXCEPT !.pc = "done", !.op = "set_context",
                                        !.current_user = cu, !.user_id = uid]]
    /\ started' = started + 1
    /\ UNCHANGED poolvars

-----------------------------------------------------------------------------
(* The connection pool: waifuapi_db_pool.DatabasePool and get_db_connection *)

\* DatabasePool.__init__: max_connections: int = 10
DefaultMaxConnections == 10

\* A sqlite3.Connection: the id-th that was opened, by a thread, which
\* the connection keeps (check_same_thread).
Connection(id, by) == [id |-> id, thread |-> by]

\* No connection: the conn = None of get_db_connection.
NoConn == Connection(0, 0)

\* The texts of the exceptions of the pool and of sqlite3.
PoolExhausted == "Connection pool exhausted"
ConnectFailed == "unable to open database file"
ClosedDatabase == "Cannot operate on a closed database."
WrongThread ==
    "SQLite objects created in a thread can only be used in that same thread."

\* A thread that is in no with-block of get_db_connection.
IdleThread == [pc |-> "idle", conn |-> NoConn, error |-> None]

\* The pool as init_db_pool makes it, and no thread at work.
PoolIdle ==
    /\ db_pool = [max_connections |-> DefaultMaxConnections,
                  connections |-> <<>>]
    /\ closed = {}
    /\ created = 0
    /\ thread = [p \in Procs |-> IdleThread]

\* The indexes of the entries that are not in use.
Available(pl) ==
    {i \in 1..Len(pl.connections) : ~pl.connections[i].in_use}

\* A get_connection that hands out a free connection without marking it.
get_connection_unmarked(pl, fresh, fails) ==
    IF Available(pl) # {}
    THEN [pool |-> pl,
          conn |-> pl.connections[SetMin(Available(pl))].connection,
          error |-> None]
    ELSE IF Len(pl.connections) < pl.max_connections
    THEN IF fails
         THEN [pool |-> pl, conn |-> NoConn, error |-> ConnectFailed]
         ELSE [pool |-> [pl EXCEPT !.connections =
                           Append(@, [connection |-> fresh,
                                      in_use |-> TRUE])],
               conn |-> fresh, error |-> None]
    ELSE [pool |-> pl, conn |-> NoConn, error |-> PoolExhausted]

\* DatabasePool.get_connection, under the lock: the first connection
\* that is not in use, else a new one (fresh, which sqlite3.connect may
\* fail to open) while the pool is not full, else the sqlite3.Error of
\* the exhausted pool.
get_connection(pl, fresh, fails) ==
    IF Available(pl) # {}
    THEN LET i == SetMin(Available(pl))
         IN  [pool |-> [pl EXCEPT !.connections[i].in_use = TRUE],
              conn |-> pl.connections[i].connection,
              error |-> None]
    ELSE IF Len(pl.connections) < pl.max_connections
    THEN IF fails
         THEN [pool |-> pl, conn |-> NoConn, error |-> ConnectFailed]
         ELSE [pool |-> [pl EXCEPT !.connections =
                           Append(@, [connection |-> fresh,
                                      in_use |-> TRUE])],
               conn |-> fresh, error |-> None]
    ELSE [pool |-> pl, conn |-> NoConn, error |-> PoolExhausted]

\* DatabasePool.release_connection: the first entry of the connection is
\* marked free; without such an entry nothing changes.
release_connection(pl, connection) ==
    LET found == {i \in 1..Len(pl.connections) :
                    pl.connections[i].connection = connection}
    IN  IF found = {} THEN pl
        ELSE [pl EXCEPT !.connections[SetMin(found)].in_use = FALSE]

\* A close_all that spares the connections in use.
close_all_idle_only(pl, p, was_closed) ==
    [pool |-> [pl EXCEPT !.connections =
                 SelectSeq(@, LAMBDA c : c.in_use)],
     closed |-> was_closed \cup
                  {pl.connections[i].connection :
                     i \in {j \in 1..Len(pl.connections) :
                              /\ pl.connections[j].connection.thread = p
                              /\ ~pl.connections[j].in_use}}]

\* DatabasePool.close_all by thread p: close() on every entry, in use or
\* not, and the list is cleared.  close() of a connection another thread
\* created raises sqlite3.ProgrammingError, which is logged: that
\* connection stays open.
close_all(pl, p, was_closed) ==
    [pool |-> [pl EXCEPT !.connections = <<>>],
     closed |-> was_closed \cup
                  {pl.connections[i].connection :
                     i \in {j \in 1..Len(pl.connections) :
                              pl.connections[j].connection.thread = p}}]

\* get_db_connection: conn = pool.get_connection(); an exception leaves
\* the with-statement with conn = None, and the request ends.
GetConnection(p, max_requests, connect_errors) ==
    /\ thread[p].pc = "idle"
    /\ started < max_requests
    /\ \E fails \in connect_errors :
         LET fresh == Connection(created + 1, p)
             r == get_connection(db_pool, fresh, fails)
         IN  /\ db_pool' = r.pool
             /\ created' = IF r.conn = fresh THEN created + 1 ELSE created
             /\ thread' = [thread EXCEPT ![p] =
                             IF r.error = None
                             THEN [pc |-> "yield", conn |-> r.conn,
                                   error |-> None]
                             ELSE [pc |-> "teardown", conn |-> NoConn,
                                   error |-> r.error]]
    /\ started' = started + 1
    /\ UNCHANGED <<dialogs, turn, closed>>

\* What sqlite3 raises when thread p operates on a connection: None when
\* it raises nothing.
OperationError(p, conn, was_closed) ==
    IF conn.thread # p THEN WrongThread
    ELSE IF conn \in was_closed THEN ClosedDatabase
    ELSE None

\* The body of the with-statement, a statement on the connection, then
\* conn.commit(), or conn.rollback() after an exception; each of them
\* raises on a connection that is closed or of another thread.
Execute(p) ==
    /\ thread[p].pc = "yield"
    /\ thread' = [thread EXCEPT ![p] =
                    [@ EXCEPT !.pc = "finally",
                              !.error = OperationError(p, thread[p].conn,
                                                       closed)]]
    /\ UNCHANGED <<dialogs, turn, started, db_pool, closed, created>>

\* finally: pool.release_connection(conn).  The request goes on to its
\* end.
ReleaseConnection(p) ==
    /\ thread[p].pc = "finally"
    /\ db_pool' = release_connection(db_pool, thread[p].conn)
    /\ thread' = [thread EXCEPT ![p] =
                    [@ EXCEPT !.pc = "teardown", !.conn = NoConn]]
    /\ UNCHANGED <<dialogs, turn, started, closed, created>>

\* close_db at the end of the request: cleanup_old_connections, which
\* calls close_all of the pool.
CloseDb(p) ==
    /\ thread[p].pc = "teardown"
    /\ LET r == close_all(db_pool, p, closed)
       IN  /\ db_pool' = r.pool
           /\ closed' = r.closed
    /\ thread' = [thread EXCEPT ![p] = IdleThread]
    /\ UNCHANGED <<dialogs, turn, started, created>>

\* The with-block of get_db_connection is left, by its end or by the
\* exception raised again, and nothing closes the pool.
LeaveBlock(p) ==
    /\ thread[p].pc = "teardown"
    /\ thread' = [thread EXCEPT ![p] = IdleThread]
    /\ UNCHANGED <<dialogs, turn, started, db_pool, closed, created>>

-----------------------------------------------------------------------------
(* Specifications *)

TextOf(s) == [kind |-> "text", text |-> s]
Failure(k) == [kind |-> k]

HtmlPage == "<!DOCTYPE HTML PUBLIC><html><body>502 Bad Gateway</body></html>"

\* Concurrent requests for one tenant: turns and create-user requests of
\* NumProcs workers.
RaceW ==
    [max_requests |-> MaxRequests,
     current_users |-> {"tenantA"},
     user_ids |-> {"u1"},
     create_ids |-> {"u1", "bad id"},
     messages |-> {"Hi", "Yo"},
     from_names |-> {None},
     to_names |-> {None},
     situations |-> {None},
     translate_froms |-> {"en"},
     translate_tos |-> {None},
     budgets |-> {DefaultMaxLenDialog},
     modules |-> StoreModules,
     bodies |-> {<<>>},
     entries |-> {"endpoint"},
     db_errors |-> {FALSE},
     outcomes |-> {[kind |-> "ok", detected |-> None]},
     gateway |-> {TextOf("Hello"), Failure("timeout")}]

Init ==
    /\ dialogs = EmptyBag
    /\ turn = [p \in Procs |-> IdleTurn]
    /\ started = 0
    /\ PoolIdle

Step(p, W) ==
    \/ Receive(p, W)
    \/ TranslateIn(p, W)
    \/ CheckUser(p, W)
    \/ AddUser(p, W)
    \/ Load(p, W)
    \/ Dispatch(p, W)
    \/ Persist(p, W)
    \/ TranslateOut(p, W)
    \/ Respond(p)
    \/ CreateStart(p, W)
    \/ CreateCheck(p)
    \/ CreateAdd(p)

Next == \E p \in Procs : Step(p, RaceW)

Spec == Init /\ [][Next]_vars

\* One worker, the lengths and budgets of the assembly.
AsmW ==
    [max_requests |-> MaxTurnsAsm,
     current_users |-> {"tenantA"},
     user_ids |-> {"u1"},
     create_ids |-> {"u1"},
     messages |-> {None, "Hi", Rep("m", 1250)},
     from_names |-> {None, "Alice"},
     to_names |-> {None},
     situations |-> {None, "At the beach", Rep("s", 800), Rep("s", 1300)},
     translate_froms |-> {"en"},
     translate_tos |-> {None},
     budgets |-> {DefaultMaxLenDialog, 700, 500},
     modules |-> {"waifuapi_db_pool"},
     bodies |-> {<<>>},
     entries |-> {"direct"},
     db_errors |-> {FALSE},
     outcomes |-> {[kind |-> "ok", detected |-> None]},
     gateway |-> {TextOf("Hello"), TextOf(Rep("r", 3400)), Failure("http")}]

\* Transcripts earlier turns have stored: that of one short turn and that
\* of a turn whose completion filled the 3300 characters.
StoredTranscripts ==
    {dialog_to_store(Assemble("", "", "", "Hi", "Waifu",
                              DefaultMaxLenDialog).dialog_new, "Hello"),
     dialog_to_store(Assemble("", "", "", "Hi", "Waifu",
                              DefaultMaxLenDialog).dialog_new,
                     Rep("r", 3400))}

InitAsm ==
    /\ dialogs \in {EmptyBag} \cup
          {SetToBag({Row("tenantA", "u1", d, None)}) : d \in StoredTranscripts}
    /\ turn = [p \in Procs |-> IdleTurn]
    /\ started = 0
    /\ PoolIdle

NextAsm == Step(1, AsmW)

SpecAsm == InitAsm /\ [][NextAsm]_vars

\* One worker, the languages and the gateway's answers.
LangW ==
    [max_requests |-> MaxTurnsLang,
     current_users |-> {"tenantA"},
     user_ids |-> {"u1"},
     create_ids |-> {"u1"},
     messages |-> {"Hi"},
     from_names |-> {None},
     to_names |-> {None},
     situations |-> {None},
     translate_froms |-> {None, "en", "fr", "xx", "zh-CN"},
     translate_tos |-> {None, "en", "fr"},
     budgets |-> {DefaultMaxLenDialog},
     modules |-> {"waifuapi_db_pool"},
     bodies |-> {<<>>},
     entries |-> {"endpoint", "direct"},
     db_errors |-> {FALSE, TRUE},
     outcomes |-> {[kind |-> "ok", detected |-> "en"],
                   [kind |-> "ok", detected |-> "fr"],
                   [kind |-> "ok", detected |-> None],
                   [kind |-> "unavailable", detected |-> None],
                   [kind |-> "error", detected |-> None]},
     gateway |-> {TextOf("Hello"), TextOf(TEMP_ERROR_MSG), TextOf(HtmlPage),
                  Failure("timeout"), Failure("connection"),
                  Failure("http"), Failure("request")}]

NextLang == Step(1, LangW)

SpecLang == Init /\ [][NextLang]_vars

\* The requests on the dialog of a stored user.
DialogStep(p, W) ==
    \/ PutStart(p, W)
    \/ PutCheck(p)
    \/ PutWrite(p)
    \/ GetStart(p, W)
    \/ GetCheck(p)
    \/ GetRead(p)

\* The requests that reset and delete a stored user.
UserStep(p, W) ==
    \/ ResetStart(p, W)
    \/ ResetCheck(p)
    \/ ResetWrite(p)
    \/ DeleteStart(p, W)
    \/ DeleteCheck(p)
    \/ DeleteWrite(p)

Entry(index, name, message) ==
    [index |-> index, name |-> name, message |-> message]

\* The lists a PUT carries: two well-formed ones, one whose indexes are
\* not 0..n-1, one with an empty name in front and one inside, one whose
\* name has spaces around it, one with an empty message, and one of
\* three entries whose messages, each within the 1250 characters of
\* validate_message, make a transcript of more than 3300.
DialogBodies ==
    {<<>>,
     <<Entry(0, "Alice", "Hi there"), Entry(1, "Waifu", "Hello")>>,
     <<Entry(4, "Waifu", "Hello"), Entry(2, "Mr X", "I said it")>>,
     <<Entry(0, "", "Hi"), Entry(1, "Waifu", "Hello")>>,
     <<Entry(0, "Alice", "Hi"), Entry(1, "", "Hello")>>,
     <<Entry(0, " Bob ", "Hi")>>,
     <<Entry(0, "Alice", "")>>,
     <<Entry(0, "Alice", Rep("a", 1200)), Entry(1, "Waifu", Rep("b", 1200)),
       Entry(2, "Alice", Rep("c", 1200))>>}

\* PUT and GET of the dialog of one tenant's users.
DialogW ==
    [max_requests |-> MaxDialogRequests,
     current_users |-> {"tenantA"},
     user_ids |-> {"u1"},
     create_ids |-> {"u1", "u2", "bad id"},
     messages |-> {"Hi"},
     from_names |-> {None},
     to_names |-> {None},
     situations |-> {None},
     translate_froms |-> {"en"},
     translate_tos |-> {None},
     budgets |-> {DefaultMaxLenDialog},
     modules |-> {"waifuapi_db_pool"},
     bodies |-> DialogBodies,
     entries |-> {"endpoint"},
     db_errors |-> {FALSE},
     outcomes |-> {[kind |-> "ok", detected |-> None]},
     gateway |-> {TextOf("Hello")}]

\* The transcript one turn has stored.
OneTurnTranscript ==
    dialog_to_store(Assemble("", "", "", "Hi", "Waifu",
                             DefaultMaxLenDialog).dialog_new, "Hello")

InitDialog ==
    /\ dialogs = SetToBag({Row("tenantA", "u1", OneTurnTranscript, None)})
    /\ turn = [p \in Procs |-> IdleTurn]
    /\ started = 0
    /\ PoolIdle

NextDialog == \E p \in Procs : DialogStep(p, DialogW) \/ Respond(p)

SpecDialog == InitDialog /\ [][NextDialog]_vars

\* Concurrent requests of every kind on the users of two tenants.
StoreW ==
    [max_requests |-> MaxStoreRequests,
     current_users |-> {"tenantA", "tenantB"},
     user_ids |-> {"u1"},
     create_ids |-> {"u1"},
     messages |-> {"Hi"},
     from_names |-> {None},
     to_names |-> {None},
     situations |-> {None},
     translate_froms |-> {"en"},
     translate_tos |-> {None},
     budgets |-> {DefaultMaxLenDialog},
     modules |-> {"waifuapi_db_pool"},
     bodies |-> {<<Entry(0, "Alice", "Hi there")>>},
     entries |-> {"endpoint"},
     db_errors |-> {FALSE},
     outcomes |-> {[kind |-> "ok", detected |-> None]},
     gateway |-> {TextOf("Hello")}]

\* Stores of earlier requests: none, and one where both tenants hold
\* users with a transcript.
InitStore ==
    /\ dialogs \in
         {EmptyBag,
          SetToBag({Row("tenantA", "u1", OneTurnTranscript, None),
                    Row("tenantB", "u1", OneTurnTranscript, None),
                    Row("tenantA", "u2", OneTurnTranscript, None)})}
    /\ turn = [p \in Procs |-> IdleTurn]
    /\ started = 0
    /\ PoolIdle

NextStore ==
    \E p \in Procs :
        \/ Step(p, StoreW)
        \/ DialogStep(p, StoreW)
        \/ UserStep(p, StoreW)

SpecStore == InitStore /\ [][NextStore]_vars

\* The sizes of the pools: one connection, and the default.
PoolSizes == {1, DefaultMaxConnections}

\* Threads that take a connection, use it, release it and end their
\* request, on a pool of any of the sizes.
InitPool ==
    /\ dialogs = EmptyBag
    /\ turn = [p \in Procs |-> IdleTurn]
    /\ started = 0
    /\ db_pool \in {[max_connections |-> n, connections |-> <<>>] :
                      n \in PoolSizes}
    /\ closed = {}
    /\ created = 0
    /\ thread = [p \in Procs |-> IdleThread]

NextPool ==
    \E p \in Procs :
        \/ GetConnection(p, MaxPoolRequests, {FALSE, TRUE})
        \/ Execute(p)
        \/ ReleaseConnection(p)
        \/ CloseDb(p)

SpecPool == InitPool /\ [][NextPool]_vars

\* Threads that only take and release connections: no close_db runs.
NextPoolUse ==
    \E p \in Procs :
        \/ GetConnection(p, MaxPoolRequests, {FALSE, TRUE})
        \/ Execute(p)
        \/ ReleaseConnection(p)
        \/ LeaveBlock(p)

SpecPoolUse == InitPool /\ [][NextPoolUse]_vars

\* One worker: a context is set, then transcripts are written.
ContextW ==
    [max_requests |-> MaxContextRequests,
     current_users |-> {"tenantA"},
     user_ids |-> {"u1"},
     create_ids |-> {"u1"},
     contexts |-> {"met at the beach"},
     messages |-> {"Hi"},
     from_names |-> {None},
     to_names |-> {None},
     situations |-> {None},
     translate_froms |-> {"en"},
     translate_tos |-> {None},
     budgets |-> {DefaultMaxLenDialog},
     modules |-> {"waifuapi_db_pool"},
     bodies |-> {<<Entry(0, "Alice", "Hi there")>>},
     entries |-> {"endpoint"},
     db_errors |-> {FALSE},
     outcomes |-> {[kind |-> "ok", detected |-> None]},
     gateway |-> {TextOf("Hello")}]

NextContext ==
    \/ Step(1, ContextW)
    \/ DialogStep(1, ContextW)
    \/ UserStep(1, ContextW)
    \/ SetContext(1, ContextW)

SpecContext == InitDialog /\ [][NextContext]_vars

\* One worker, turn after turn, with every step that can fail: the two
\* translations, the statements on the table and the gateway.
FailW ==
    [max_requests |-> MaxFailTurns,
     current_users |-> {"tenantA"},
     user_ids |-> {"u1"},
     create_ids |-> {"u1"},
     messages |-> {"Hi"},
     from_names |-> {None},
     to_names |-> {None},
     situations |-> {None},
     translate_froms |-> {"en", "fr"},
     translate_tos |-> {None, "fr"},
     budgets |-> {DefaultMaxLenDialog},
     modules |-> {"waifuapi_db_pool"},
     bodies |-> {<<>>},
     entries |-> {"endpoint"},
     db_errors |-> {FALSE, TRUE},
     outcomes |-> {[kind |-> "ok", detected |-> None],
                   [kind |-> "unavailable", detected |-> None],
                   [kind |-> "error", detected |-> None]},
     gateway |-> {TextOf("Hello"), Failure("timeout"), Failure("connection"),
                  Failure("http"), Failure("request")}]

NextFail == Step(1, FailW)

SpecFail == Init /\ [][NextFail]_vars

\* The steps of a turn that has begun.
Advance(p, W) ==
    \/ TranslateIn(p, W)
    \/ CheckUser(p, W)
    \/ AddUser(p, W)
    \/ Load(p, W)
    \/ Dispatch(p, W)
    \/ Persist(p, W)
    \/ TranslateOut(p, W)

\* The same, with the progress of the worker: each step of a turn is a
\* call that returns or raises (requests.post has a timeout of 30
\* seconds, the connections one of 5), so a turn that has a step to take
\* takes it.
SpecFailLive == Init /\ [][NextFail]_vars /\ WF_vars(Advance(1, FailW))

-----------------------------------------------------------------------------
(* Properties of the assembly (SpecAsm) *)

\* The turns that hold the two assembled strings.
Assembled(t) ==
    /\ t.op = "turn"
    /\ \/ t.pc \in {"dispatch", "persist", "translate_out"}
       \/ t.pc = "done" /\ t.dialog_to_send # ""

\* C1: for every budget max_len_dialog, stored transcript and situation,
\* dialog_new and dialog_to_send after their final truncation are each at
\* most max_len_dialog characters long.
C1_WithinBudget ==
    \A p \in Procs :
        Assembled(turn[p]) =>
            /\ Len(turn[p].dialog_new) <= turn[p].max_len_dialog
            /\ Len(turn[p].dialog_to_send) <= turn[p].max_len_dialog

\* C6: when the situation is longer than max_len_dialog (the remaining
\* budget is not positive), the slice of the old transcript is empty and
\* neither assembled string is longer than the new entry with its
\* situation and genre tag, whatever the stored transcript is.
C6_CollapsesWhenOverBudget ==
    \A p \in Procs :
        LET t == turn[p]
            entry == dialog_entry(t.from_name, t.message, t.to_name)
        IN  (Assembled(t) /\ Len(t.situation) > t.max_len_dialog) =>
                /\ t.dialog_old = ""
                /\ Len(t.dialog_new) <= Len(entry)
                /\ Len(t.dialog_to_send)
                       <= Len("[ Genre: " \o default_genre \o " ]  ")
                            + Len(t.situation) + Len(entry)

\* C7: each truncation of the assembly keeps a suffix: the old transcript
\* used, dialog_new and dialog_to_send are the trailing substrings of the
\* loaded transcript and of their untruncated candidates.
C7_TruncationKeepsSuffix ==
    \A p \in Procs :
        LET t == turn[p]
        IN  Assembled(t) =>
                /\ IsSuffix(t.dialog_old, t.dialog_loaded)
                /\ IsSuffix(t.dialog_new, t.dialog_new_full)
                /\ IsSuffix(t.dialog_to_send, t.dialog_to_send_full)

\* A turn in which all three strings were shortened.
C7_Witness ==
    \E p \in Procs :
        LET t == turn[p]
        IN  /\ Assembled(t)
            /\ 0 < Len(t.dialog_old)
            /\ Len(t.dialog_old) < Len(t.dialog_loaded)
            /\ Len(t.dialog_new) < Len(t.dialog_new_full)
            /\ Len(t.dialog_to_send) < Len(t.dialog_to_send_full)

\* The turns past a successful dispatch.
Dispatched(t) ==
    /\ t.op = "turn"
    /\ t.gateway # None
    /\ t.pc \in {"persist", "translate_out", "done"}

\* C8: after a successful dispatch the string the turn writes is
\* dialog_new + response + '"' when that has at most 3300 characters and
\* its last 3300 characters otherwise, whatever the budget; once written
\* it is the transcript stored for the key.
C8_StoreCeiling ==
    \A p \in Procs :
        LET t == turn[p]
            whole == t.dialog_new \o t.response \o "\""
            kept == IF Len(whole) <= 3300 THEN whole
                    ELSE SubSeq(whole, Len(whole) - 3299, Len(whole))
        IN  Dispatched(t) =>
                /\ t.dialog_to_store = kept
                /\ t.wrote =>
                     get_user_dialog(dialogs, t.current_user, t.user_id) = kept

\* A turn with a budget other than the default has written a string cut
\* to 3300 characters.
C8_Witness ==
    \E p \in Procs :
        LET t == turn[p]
        IN  /\ Dispatched(t)
            /\ t.wrote
            /\ t.max_len_dialog # DefaultMaxLenDialog
            /\ Len(t.dialog_new \o t.response \o "\"") > 3300
            /\ Len(get_user_dialog(dialogs, t.current_user, t.user_id)) = 3300

\* C14: the transcript-update string as built is the truncated old
\* transcript followed by ' {to_name} said: "' when from_name and message
\* are both empty, by ' You said: "{message}" {to_name} said: "' when only
\* from_name is empty, and by ' {from_name} said: "{message}" {to_name}
\* said: "' otherwise; dialog_new is its last len_dialog characters.  With
\* an empty old transcript, 'Alice', 'Hi' and 'Waifu' it is
\* ' Alice said: "Hi" Waifu said: "'.
C14_UpdateString ==
    \A p \in Procs :
        LET t == turn[p]
            tail == IF t.from_name = "" /\ t.message = ""
                    THEN " " \o t.to_name \o " said: \""
                    ELSE IF t.from_name = "" /\ t.message # ""
                    THEN " You said: \"" \o t.message \o "\" " \o t.to_name
                             \o " said: \""
                    ELSE " " \o t.from_name \o " said: \"" \o t.message
                             \o "\" " \o t.to_name \o " said: \""
        IN  Assembled(t) =>
                /\ t.dialog_new_full = t.dialog_old \o tail
                /\ t.dialog_new = LastChars(t.dialog_new_full, t.len_dialog)
                /\ (/\ t.dialog_old = "" /\ t.from_name = "Alice"
                    /\ t.message = "Hi" /\ t.to_name = "Waifu")
                   => t.dialog_new_full = " Alice said: \"Hi\" Waifu said: \""

\* The first turn of Alice with the default budget holds the string of
\* the example, uncut.
C14_Witness ==
    \E p \in Procs :
        LET t == turn[p]
        IN  /\ Assembled(t)
            /\ t.dialog_loaded = "" /\ t.from_name = "Alice"
            /\ t.message = "Hi" /\ t.to_name = "Waifu"
            /\ t.max_len_dialog = DefaultMaxLenDialog
            /\ t.dialog_new = " Alice said: \"Hi\" Waifu said: \""

\* C25: for every input and budget, dialog_new after its final truncation
\* is not empty and its last character is the quote that opens the
\* respondent's turn.
C25_OpeningQuoteSurvives ==
    \A p \in Procs :
        LET t == turn[p]
        IN  Assembled(t) =>
                /\ Len(t.dialog_new) > 0
                /\ IsSuffix("\"", t.dialog_new)

\* The turns on which clean_paragraph has run.
Cleaned(t) == t.op = "turn" /\ t.pc \notin {"idle", "translate_in"}
                /\ t.translate_from # ""

\* C19: sanitize_text does not fail on a text that is only too long: for
\* a situation whose filtered and trimmed text has more than 1250
\* characters, clean_paragraph gives its last 1250 characters, and the
\* turn goes on with them.
C19_SanitizeKeepsSuffix ==
    \A p \in Procs :
        LET t == turn[p]
            raw == FormGet(t.form.situation, "")
            trimmed == strip(FilterPrintable(raw))
        IN  (Cleaned(t) /\ Len(trimmed) > CleanParagraphMax) =>
                /\ clean_paragraph(raw).ok
                /\ clean_paragraph(raw).text
                     = SubSeq(trimmed, Len(trimmed) - CleanParagraphMax + 1,
                              Len(trimmed))
                /\ t.error # TextTooLong(CleanParagraphMax)
                /\ t.pc = "check_user" =>
                     /\ Len(t.situation) <= CleanParagraphMax
                     /\ IsSuffix(t.situation, trimmed)

-----------------------------------------------------------------------------
(* Properties of concurrent requests (Spec) *)

\* C2: turns for one key are not serialized and the last write wins: the
\* write that ends a turn replaces whatever transcript the key holds by
\* the string the turn assembled from the transcript it loaded, also when
\* another turn has written since that load.
C2_LastWriteWins ==
    [][\A p \in Procs :
          LET t == turn[p]
          IN  (/\ t.pc = "persist"
               /\ turn'[p].pc = "translate_out"
               /\ is_user_id_in_db(dialogs, t.current_user, t.user_id))
              => get_user_dialog(dialogs', t.current_user, t.user_id)
                   = t.dialog_to_store]_vars

\* Two turns for one key loaded the same transcript, both wrote, and the
\* stored transcript holds the exchange of one of them only.
C2_Witness ==
    \E p, q \in Procs :
        LET t == turn[p]
            u == turn[q]
            stored == get_user_dialog(dialogs, t.current_user, t.user_id)
        IN  /\ p # q
            /\ t.op = "turn" /\ u.op = "turn"
            /\ t.current_user = u.current_user /\ t.user_id = u.user_id
            /\ t.wrote /\ u.wrote
            /\ t.dialog_loaded = u.dialog_loaded
            /\ t.message # u.message
            /\ stored = u.dialog_to_store
            /\ Contains(stored, "said: \"" \o u.message \o "\"")
            /\ ~Contains(stored, "said: \"" \o t.message \o "\"")

\* C3: in every reachable state the table holds at most one row for each
\* (current_user, user_id), however create-user requests and the
\* provisioning of turns interleave their checks and inserts.
C3_OneRecordPerKey ==
    \A r \in BagToSet(dialogs) :
        RowCount(dialogs, r.current_user, r.user_id) = 1

\* A create-user request and a turn both found the key absent and both
\* ran their insert; the key has one row.
C3_Witness ==
    \E p, q \in Procs :
        LET t == turn[p]
            u == turn[q]
        IN  /\ t.op = "create" /\ t.pc = "done" /\ t.status = 200
            /\ ~t.exists
            /\ u.op = "turn" /\ u.pc = "load" /\ ~u.exists
            /\ t.current_user = u.current_user /\ t.user_id = u.user_id
            /\ RowCount(dialogs, t.current_user, t.user_id) = 1

\* C17: a step of a create request made while its key has a row leaves
\* the table as it is (the transcript of the key and the user count of
\* the tenant included), whether the request found the row in its check or
\* the row appeared between its check and its insert, and the request is
\* answered 200.
C17_CreateIdempotent ==
    [][\A p \in Procs :
          LET t == turn[p]
          IN  (/\ t.op = "create"
               /\ turn'[p] # t
               /\ is_user_id_in_db(dialogs, t.current_user, t.user_id))
              => /\ dialogs' = dialogs
                 /\ get_user_dialog(dialogs', t.current_user, t.user_id)
                      = get_user_dialog(dialogs, t.current_user, t.user_id)
                 /\ get_user_count(dialogs', t.current_user)
                      = get_user_count(dialogs, t.current_user)
                 /\ turn'[p].pc = "done" => turn'[p].status = 200]_vars

\* A create request found its user stored, with a transcript, and was
\* answered 200; the transcript is still there.
C17_Witness ==
    \E p \in Procs :
        LET t == turn[p]
        IN  /\ t.op = "create" /\ t.pc = "done"
            /\ t.exists /\ t.status = 200
            /\ get_user_dialog(dialogs, t.current_user, t.user_id) # ""
            /\ get_user_count(dialogs, t.current_user) = 1

-----------------------------------------------------------------------------
(* Properties of the gateway's answers and of translation (SpecLang) *)

\* The turns that went through the whole of process_message.
Completed(t) == t.op = "turn" /\ t.pc = "done" /\ t.wrote

\* The translate_text calls made after the inbound one.
OutboundCalls(t) == SelectSeq(t.calls, LAMBDA c : c.source = "en")

InboundCalls(t) == SelectSeq(t.calls, LAMBDA c : c.source # "en")

\* The detected source language as process_message resolves it.
DetectedLanguage(t) ==
    IF t.translation_dict.detectedSourceLanguage \in languages
    THEN t.translation_dict.detectedSourceLanguage
    ELSE "auto"

\* The texts translate_text can hand back for a text and a target.
Translations(target, text) ==
    {translate_text(target, text, "en", o).translatedText :
        o \in LangW.outcomes}

\* C4: when the gateway answers the token "error", the turn returns the
\* retry notice and writes nothing: the stored transcript is the one the
\* turn loaded.
C4_ErrorTokenNotPersisted ==
    \A p \in Procs :
        LET t == turn[p]
        IN  (t.op = "turn" /\ t.pc = "done" /\ t.gateway = "error"
                           /\ t.error = None) =>
                /\ t.reply = MSG_TEMP_ERROR
                /\ get_user_dialog(dialogs, t.current_user, t.user_id)
                     = t.dialog_loaded

\* C5 as stated: when the gateway's text starts with "<!DOCTYPE HTML", the
\* turn returns the unavailability message and the transcript it writes
\* holds none of the HTML.
C5_HtmlReturnsFixedMessage ==
    \A p \in Procs :
        LET t == turn[p]
        IN  (Completed(t) /\ startswith(t.gateway, "<!DOCTYPE HTML")) =>
                /\ t.reply = MSG_UNAVAILABLE
                /\ ~Contains(t.dialog_to_store, "<!DOCTYPE")

\* C5, amended: when the gateway's text starts with "<!DOCTYPE HTML", the
\* unavailability message takes its place: it is the completion in the
\* transcript the turn writes, which holds none of the HTML, and it is
\* what the caller receives, as it is when no outbound translation is
\* made and as translate_text hands it back otherwise.
C5_HtmlSubstituted ==
    \A p \in Procs :
        LET t == turn[p]
            stored == get_user_dialog(dialogs, t.current_user, t.user_id)
        IN  (Completed(t) /\ startswith(t.gateway, "<!DOCTYPE HTML")) =>
                /\ stored = t.dialog_new \o MSG_UNAVAILABLE \o "\""
                /\ ~Contains(stored, "<!DOCTYPE")
                /\ OutboundCalls(t) = <<>> => t.reply = MSG_UNAVAILABLE
                /\ OutboundCalls(t) # <<>> =>
                     t.reply \in Translations(OutboundCalls(t)[1].target,
                                              MSG_UNAVAILABLE)

\* A turn answered by an HTML page has stored and returned the message.
C5_Witness ==
    \E p \in Procs :
        LET t == turn[p]
        IN  /\ Completed(t)
            /\ t.gateway = HtmlPage
            /\ t.reply = MSG_UNAVAILABLE
            /\ Contains(get_user_dialog(dialogs, t.current_user, t.user_id),
                        MSG_UNAVAILABLE)

\* The target of the outbound call a completed turn made, None without
\* a call.
OutboundMade(t) ==
    IF OutboundCalls(t) = <<>> THEN None ELSE OutboundCalls(t)[1].target

\* C9 as stated: the outbound translation goes to translate_to when that
\* is not "auto"; else none is made when translate_from is "auto" and the
\* detected language is "en"; else it goes to the detected language when
\* translate_from is "auto"; else it goes to translate_from.
C9_ChainAsStated ==
    \A p \in Procs :
        LET t == turn[p]
        IN  Completed(t) =>
                /\ Len(OutboundCalls(t)) <= 1
                /\ OutboundMade(t) =
                     IF t.translate_to # "auto" THEN t.translate_to
                     ELSE IF t.translate_from = "auto"
                               /\ DetectedLanguage(t) = "en" THEN None
                     ELSE IF t.translate_from = "auto"
                          THEN DetectedLanguage(t)
                     ELSE t.translate_from

\* C9, amended: as stated, with one more case before the last: when
\* translate_to is "auto" and translate_from is "en", no outbound call is
\* made; only a translate_from that is neither "auto" nor "en" is
\* translated back to.
C9_OutboundChain ==
    \A p \in Procs :
        LET t == turn[p]
        IN  Completed(t) =>
                /\ Len(OutboundCalls(t)) <= 1
                /\ OutboundMade(t) =
                     IF t.translate_to # "auto" THEN t.translate_to
                     ELSE IF t.translate_from = "auto"
                               /\ DetectedLanguage(t) = "en" THEN None
                     ELSE IF t.translate_from = "auto"
                          THEN DetectedLanguage(t)
                     ELSE IF t.translate_from = "en" THEN None
                     ELSE t.translate_from

\* A turn from "auto" whose detected language was "en" made no outbound
\* call.
C9_Witness ==
    \E p \in Procs :
        LET t == turn[p]
        IN  /\ Completed(t)
            /\ t.translate_to = "auto" /\ t.translate_from = "auto"
            /\ InboundCalls(t) # <<>>
            /\ DetectedLanguage(t) = "en"
            /\ OutboundCalls(t) = <<>>

\* C10: with translate_from "en" and translate_to "auto" a turn calls
\* translate_text neither inbound nor outbound, and what it returns is the
\* gateway's completion as it is (the unavailability message for an HTML
\* page, the retry notice for the "error" token).
C10_PivotSkipsTranslation ==
    \A p \in Procs :
        LET t == turn[p]
        IN  (t.op = "turn" /\ t.translate_from = "en"
                           /\ t.translate_to = "auto") =>
                /\ t.calls = <<>>
                /\ Completed(t) =>
                     t.reply =
                        IF startswith(t.gateway, "<!DOCTYPE HTML")
                        THEN MSG_UNAVAILABLE
                        ELSE IF t.gateway = "error" THEN MSG_TEMP_ERROR
                        ELSE t.gateway

\* A turn from "en" to "auto" has returned the completion, no call made.
C10_Witness ==
    \E p \in Procs :
        LET t == turn[p]
        IN  /\ Completed(t)
            /\ t.translate_from = "en" /\ t.translate_to = "auto"
            /\ t.calls = <<>>
            /\ t.gateway = "Hello"
            /\ t.reply = "Hello"

\* The tags a turn resolves: the two of its form, None for a missing
\* one, and the detected language of the inbound translation.
TagsOf(t) ==
    {t.form.translate_from, t.form.translate_to,
     t.translation_dict.detectedSourceLanguage}

\* C20: for every tag x, a missing one included, language_defaulter(x) is
\* a member of the supported set or "auto", and resolving it again gives
\* the same tag; the translate_from and translate_to a turn works with
\* are such resolved tags.
C20_ResolveIdempotent ==
    \A p \in Procs :
        LET t == turn[p]
        IN  t.op = "turn" =>
                /\ \A x \in TagsOf(t) :
                     /\ language_defaulter(x) \in languages \cup {"auto"}
                     /\ language_defaulter(language_defaulter(x))
                          = language_defaulter(x)
                /\ t.translate_from # "" =>
                     /\ t.translate_from \in languages \cup {"auto"}
                     /\ t.translate_to \in languages \cup {"auto"}
                     /\ language_defaulter(t.translate_from)
                          = t.translate_from
                     /\ language_defaulter(t.translate_to) = t.translate_to

\* A turn with an unsupported translate_from and no translate_to, both
\* resolved to "auto", whose detected language the service did not give.
C20_Witness ==
    \E p \in Procs :
        LET t == turn[p]
        IN  /\ t.op = "turn" /\ t.pc = "done" /\ t.wrote
            /\ t.form.translate_from = "xx" /\ t.translate_from = "auto"
            /\ t.form.translate_to = None /\ t.translate_to = "auto"
            /\ t.translation_dict.detectedSourceLanguage = None

-----------------------------------------------------------------------------
(* Properties of the failures of a turn (SpecLang) *)

\* The turns of the chat endpoint that have their answer.
Answered(t) == t.op = "turn" /\ t.entry = "endpoint" /\ t.pc = "done"

\* The strings the code answers a failure with.
FixedReplies ==
    {MSG_DB_ERROR, MSG_DB_SAVE_ERROR, MSG_TIMEOUT, MSG_CONNECTION,
     MSG_HTTP_ERROR, MSG_REQUEST_FAILED, MSG_UNAVAILABLE, MSG_TEMP_ERROR,
     "Translation service unavailable", "Translation error"}

\* C11: what the chat endpoint answers a turn with is the completion kept
\* by the turn, that completion as the outbound translation hands it back,
\* or one of the fixed strings; a turn in which validation, the database
\* or the gateway raised an exception is answered by a fixed string that
\* holds nothing of the exception's text.
C11_FixedReplies ==
    \A p \in Procs :
        LET t == turn[p]
        IN  Answered(t) =>
                /\ \/ t.reply \in FixedReplies
                   \/ /\ t.wrote
                      /\ OutboundCalls(t) = <<>>
                      /\ t.reply = t.response
                   \/ /\ t.wrote
                      /\ OutboundCalls(t) # <<>>
                      /\ t.reply \in Translations(OutboundCalls(t)[1].target,
                                                  t.response)
                /\ t.error # None =>
                     /\ t.reply \in FixedReplies
                     /\ ~Contains(t.reply, t.error)

\* A turn whose transcript load raised, which process_message does not
\* catch, was answered by the default message.
C11_Witness ==
    \E p \in Procs :
        LET t == turn[p]
        IN  /\ Answered(t)
            /\ t.error = SqliteError
            /\ t.ret = None
            /\ t.reply = MSG_UNAVAILABLE

\* The turns the gateway failed.
GatewayFailed(t) == t.op = "turn" /\ t.pc = "done" /\ t.failure # None

-----------------------------------------------------------------------------
(* Properties of the dialog as data (SpecDialog) *)

\* The (name, message) pairs of a list of entries.
Pairs(dialog) ==
    [i \in 1..Len(dialog) |-> <<dialog[i].name, dialog[i].message>>]

\* The lists the claim speaks of: no '"' and no "said:" in any name or
\* message.
Plain(dialog) ==
    \A i \in 1..Len(dialog) :
        /\ ~Contains(dialog[i].name, "\"")
        /\ ~Contains(dialog[i].name, "said:")
        /\ ~Contains(dialog[i].message, "\"")
        /\ ~Contains(dialog[i].message, "said:")

\* C13: for a list without '"' and "said:", dialog_to_json of
\* json_to_dialog gives the pairs of the list, numbered 0..n-1; and a GET
\* that reads the transcript a PUT of such a list has written returns the
\* pairs that were put.
C13_RoundTrip ==
    \A p \in Procs :
        LET t == turn[p]
            back == dialog_to_json(json_to_dialog(t.body))
        IN  (t.op = "put" /\ Plain(t.body)) =>
                /\ Pairs(back) = Pairs(t.body)
                /\ \A i \in 1..Len(back) : back[i].index = i - 1
                /\ \A q \in Procs :
                     LET g == turn[q]
                     IN  (/\ t.pc = "done" /\ t.wrote
                          /\ g.op = "get" /\ g.pc = "done" /\ g.status = 200
                          /\ g.current_user = t.current_user
                          /\ g.user_id = t.user_id
                          /\ g.dialog_loaded = t.dialog_to_store)
                         => Pairs(g.dialog_json) = Pairs(t.body)

\* C27: in every reachable state, after any sequence of turns, dialog
\* updates and resets, every stored transcript has at most 3300
\* characters.
C27_StoredWithinCeiling ==
    \A r \in BagToSet(dialogs) : Len(r.dialog) <= StoreKeep

-----------------------------------------------------------------------------
(* Properties of reset, delete and the other keys (SpecStore) *)

\* C15: the write of a reset made on a stored user leaves the user stored,
\* with one row whose transcript is the empty string, and the request is
\* answered 200; a reset whose check finds no row is answered 404 and
\* leaves the table as it is.
C15_ResetKeepsRecord ==
    [][\A p \in Procs :
          LET t == turn[p]
          IN  /\ (/\ t.pc = "reset_write"
                  /\ turn'[p] # t
                  /\ is_user_id_in_db(dialogs, t.current_user, t.user_id))
                 => /\ is_user_id_in_db(dialogs', t.current_user, t.user_id)
                    /\ RowCount(dialogs', t.current_user, t.user_id) = 1
                    /\ get_user_dialog(dialogs', t.current_user, t.user_id)
                         = ""
                    /\ get_user_count(dialogs', t.current_user)
                         = get_user_count(dialogs, t.current_user)
                    /\ turn'[p].status = 200
              /\ (/\ t.pc = "reset_check"
                  /\ turn'[p] # t
                  /\ ~is_user_id_in_db(dialogs, t.current_user, t.user_id))
                 => /\ turn'[p].pc = "done"
                    /\ turn'[p].status = 404
                    /\ dialogs' = dialogs]_vars

\* A reset has written: its user is stored with an empty transcript.
C15_Witness ==
    \E p \in Procs :
        LET t == turn[p]
        IN  /\ t.op = "reset" /\ t.pc = "done" /\ t.status = 200
            /\ t.exists /\ t.wrote
            /\ is_user_id_in_db(dialogs, t.current_user, t.user_id)
            /\ get_user_dialog(dialogs, t.current_user, t.user_id) = ""

\* C16: after the write of a delete the key has no row, so that
\* is_user_id_in_db reports the user absent, and the request is answered
\* 200; a delete whose check finds no row is answered 404 and leaves the
\* table as it is.
C16_DeleteRemovesRecord ==
    [][\A p \in Procs :
          LET t == turn[p]
          IN  /\ (t.pc = "delete_write" /\ turn'[p] # t)
                 => /\ ~is_user_id_in_db(dialogs', t.current_user, t.user_id)
                    /\ RowCount(dialogs', t.current_user, t.user_id) = 0
                    /\ turn'[p].status = 200
              /\ (/\ t.pc = "delete_check"
                  /\ turn'[p] # t
                  /\ ~is_user_id_in_db(dialogs, t.current_user, t.user_id))
                 => /\ turn'[p].pc = "done"
                    /\ turn'[p].status = 404
                    /\ dialogs' = dialogs]_vars

\* A delete has found its user and written: the user is not stored.
C16_Witness ==
    \E p \in Procs :
        LET t == turn[p]
        IN  /\ t.op = "delete" /\ t.pc = "done" /\ t.status = 200
            /\ t.exists /\ t.wrote
            /\ ~is_user_id_in_db(dialogs, t.current_user, t.user_id)

\* The key of the request a worker's step belongs to.
StepKey(before, after) ==
    IF before.pc = "idle" THEN <<after.current_user, after.user_id>>
    ELSE <<before.current_user, before.user_id>>

\* C18: a step of a request on one (current_user, user_id) changes no row
\* of another key, neither its number of copies nor its content: a row
\* whose key is not the request's is in the table after the step as often
\* as before it.
C18_OtherKeysUntouched ==
    [][\A p \in Procs :
          turn'[p] # turn[p] =>
              \A r \in BagToSet(dialogs) \cup BagToSet(dialogs') :
                  <<r.current_user, r.user_id>> # StepKey(turn[p], turn'[p])
                      => CopiesIn(r, dialogs') = CopiesIn(r, dialogs)]_vars

\* A delete for tenantA's u1 has written while tenantB holds a u1 and
\* tenantA a u2, which still have their transcripts.
C18_Witness ==
    \E p \in Procs :
        LET t == turn[p]
        IN  /\ t.op = "delete" /\ t.pc = "done" /\ t.wrote
            /\ t.current_user = "tenantA" /\ t.user_id = "u1"
            /\ ~is_user_id_in_db(dialogs, "tenantA", "u1")
            /\ get_user_dialog(dialogs, "tenantB", "u1") = OneTurnTranscript
            /\ get_user_dialog(dialogs, "tenantA", "u2") = OneTurnTranscript

\* C28: a turn, a dialog update or a reset that has passed its existence
\* check (or, for a turn, has inserted the row) does not bring back a row
\* that a delete has removed since: its write, made while the key has no
\* row, leaves the key without one.
C28_DeletedStaysAbsent ==
    [][\A p \in Procs :
          LET t == turn[p]
          IN  (/\ t.pc \in {"persist", "put_write", "reset_write"}
               /\ turn'[p] # t
               /\ ~is_user_id_in_db(dialogs, t.current_user, t.user_id))
              => ~is_user_id_in_db(dialogs', t.current_user, t.user_id)]_vars

-----------------------------------------------------------------------------
(* Properties of a turn that fails (SpecFail, SpecFailLive) *)

\* C21: a turn whose dispatch fails with a timeout, a connection error or
\* an HTTP error status has posted once and written nothing: the key's
\* transcript is the one the turn loaded, and for a user the turn did not
\* find it is the empty transcript of the row the turn inserted.
C21_FailedDispatchWritesNothing ==
    \A p \in Procs :
        LET t == turn[p]
            stored == get_user_dialog(dialogs, t.current_user, t.user_id)
        IN  (GatewayFailed(t) /\ t.failure \in {"timeout", "connection", "http"})
                => /\ t.posts = 1
                   /\ ~t.wrote /\ t.writes = 0
                   /\ stored = t.dialog_loaded
                   /\ RowCount(dialogs, t.current_user, t.user_id) = 1
                   /\ ~t.exists => stored = ""

\* The dispatch of the turn of a user with a transcript has failed; the
\* transcript is the one the turn before it stored.
C21_Witness ==
    \E p \in Procs :
        LET t == turn[p]
        IN  /\ GatewayFailed(t) /\ t.failure = "timeout"
            /\ t.exists
            /\ get_user_dialog(dialogs, t.current_user, t.user_id)
                 = OneTurnTranscript

\* The turns whose inbound translate_text call failed inside the bridge.
InboundFailed(t) ==
    /\ t.op = "turn"
    /\ InboundCalls(t) # <<>>
    /\ InboundCalls(t)[1].outcome # "ok"

\* C22: a turn whose inbound translation failed ends at once with the
\* message "Translation error. Please try again later.": it makes no
\* post to the gateway and no write, and the stored transcript stays as
\* it was.
C22_InboundFailureEndsTurn ==
    \A p \in Procs :
        LET t == turn[p]
        IN  InboundFailed(t) =>
                /\ t.pc = "done"
                /\ t.reply = MSG_TRANSLATION_ERROR
                /\ t.posts = 0
                /\ ~t.wrote /\ t.writes = 0

\* The turns whose outbound translate_text call failed inside the bridge.
OutboundFailed(t) ==
    /\ Completed(t)
    /\ OutboundCalls(t) # <<>>
    /\ OutboundCalls(t)[1].outcome # "ok"

\* C23: a turn whose outbound translation failed is answered
\* "Translation error. Please try again later." while the transcript it
\* wrote, with the untranslated completion, stays stored.
C23_OutboundFailureMessage ==
    \A p \in Procs :
        LET t == turn[p]
            stored == get_user_dialog(dialogs, t.current_user, t.user_id)
        IN  OutboundFailed(t) =>
                /\ t.reply = MSG_TRANSLATION_ERROR
                /\ t.writes = 1
                /\ stored = t.dialog_new \o t.response \o "\""

\* C24: nothing is retried inside a turn: a turn posts to the gateway at
\* most once and writes the transcript at most once, and every turn that
\* has begun ends with one response for the caller, whichever step
\* failed.
C24_NoRetry ==
    /\ [](\A p \in Procs :
            LET t == turn[p]
            IN  t.op = "turn" =>
                    /\ t.posts <= 1
                    /\ t.writes <= 1
                    /\ t.writes = 1 => t.posts = 1
                    /\ t.pc = "done" => t.reply # None)
    /\ \A p \in Procs :
         (turn[p].op = "turn")
             ~> (turn[p].op = "turn" /\ turn[p].pc = "done"
                                     /\ turn[p].reply # None)

\* A turn whose dispatch failed has its answer after one post, no write.
C24_Witness ==
    \E p \in Procs :
        LET t == turn[p]
        IN  /\ GatewayFailed(t)
            /\ t.posts = 1 /\ t.writes = 0
            /\ t.reply = MSG_CONNECTION

-----------------------------------------------------------------------------
(* Properties of the context field (SpecContext) *)

\* C26: a write that replaces the transcript of a stored user (the write
\* that ends a turn, that of a dialog update, that of a reset) leaves the
\* context of the row as it is: get_user_context returns after the write
\* what it returned before it.
C26_WritesKeepContext ==
    [][\A p \in Procs :
          LET t == turn[p]
          IN  (/\ t.pc \in {"persist", "put_write", "reset_write"}
               /\ turn'[p] # t
               /\ is_user_id_in_db(dialogs, t.current_user, t.user_id))
              => get_user_context(dialogs', t.current_user, t.user_id)
                   = get_user_context(dialogs, t.current_user, t.user_id)]_vars

-----------------------------------------------------------------------------
(* Properties of the connection pool (SpecPool, SpecPoolUse) *)

\* The threads that hold a connection: between get_connection and
\* release_connection.
Holders == {p \in Procs : thread[p].conn # NoConn}

\* The entries of the pool for a connection that are marked in use.
InUseEntries(pl, c) ==
    {i \in 1..Len(pl.connections) :
        /\ pl.connections[i].connection = c
        /\ pl.connections[i].in_use}

\* C29: a pooled connection that a request has checked out is never
\* closed under it: close_db at the end of one request closes no
\* connection that another request still holds.
C29_NoCloseUnderHolder ==
    \A p \in Holders : thread[p].conn \notin closed

\* The pool never has more than max_connections entries, no two threads
\* hold the same connection, and a held connection is marked in use.
PoolInv ==
    /\ Len(db_pool.connections) <= db_pool.max_connections
    /\ created <= db_pool.max_connections
    /\ \A p, q \in Holders : thread[p].conn = thread[q].conn => p = q
    /\ \A p \in Holders : InUseEntries(db_pool, thread[p].conn) # {}

\* A step in which thread p is handed a connection: the connection was
\* not in use before the step.
HandedFree(p) ==
    (thread[p].conn = NoConn /\ thread'[p].conn # NoConn)
        => InUseEntries(db_pool, thread'[p].conn) = {}

\* A step in which thread p calls get_connection on a full pool with
\* every connection in use: the call raises, the pool is as it was, and
\* the thread holds nothing and waits for nothing.
ExhaustedRaises(p) ==
    (/\ thread[p].pc = "idle" /\ thread'[p].pc # "idle"
     /\ Available(db_pool) = {}
     /\ Len(db_pool.connections) = db_pool.max_connections)
        => /\ thread'[p].error = PoolExhausted
           /\ thread'[p].conn = NoConn
           /\ thread'[p].pc = "teardown"
           /\ db_pool' = db_pool

\* A step that is not the release by its holder leaves a connection in
\* use marked in use.
StaysInUse(p) ==
    (thread[p].conn # NoConn /\ thread'[p].conn = thread[p].conn)
        => InUseEntries(db_pool', thread[p].conn) # {}

\* C30: under any interleaving of get_connection and release_connection
\* the pool holds at most max_connections connections and no connection
\* has two holders at once: a connection is handed out only when it is
\* not in use, stays marked in use until its holder releases it, and a
\* full pool with every connection in use makes get_connection raise.
C30_PoolIsExclusive ==
    /\ []PoolInv
    /\ [][\A p \in Procs :
            HandedFree(p) /\ ExhaustedRaises(p) /\ StaysInUse(p)]_vars

\* A thread was refused by the full pool while another holds its only
\* connection, and a connection that was released was handed out again.
C30_Witness ==
    \E p, q \in Procs :
        /\ thread[p].error = PoolExhausted
        /\ thread[q].conn # NoConn
        /\ thread[q].conn.thread = p
        /\ Len(db_pool.connections) = db_pool.max_connections

====
